---- MODULE Spec2Model ----
(***************************************************************************)
(* A model of two files of the repository:                                 *)
(*   torch/onnx/_internal/fx/exporter.py   the FX-to-ONNX export pipeline  *)
(*   test/distributed/fsdp/test_fsdp_hybrid_shard.py                       *)
(*                                         the HYBRID_SHARD set-up test    *)
(*                                         and its two patching contexts   *)
(* Three specifications share the module: Spec (the exporter), SpecPatch   *)
(* (the context managers patch_allreduce / patch_reduce_scatter) and       *)
(* SpecTest (test_fsdp_hybrid_shard_basic_setup, one process per rank).    *)
(***************************************************************************)
EXTENDS Integers, Sequences, FiniteSets, TLC

VARIABLES
    \* ---- exporter.py ----
    entry,            \* which public entry point the caller invoked
    fn_args,          \* the caller's positional *args
    fn_kwargs,        \* the caller's **kwargs (values, in signature order)
    caller_opts,      \* the three keyword options as written by the caller
    pc,               \* position of the export call
    graph_module,     \* result of the frontend's trace
    bound_args,       \* second result of FxFrontendUnpackKwargs.trace
    export_args,      \* `args` parameter of _export
    export_kwargs,    \* `**kwargs` parameter of _export
    export_options,   \* local export_options of _export
    decomposed_module,
    onnxscript_graph,
    onnx_model,
    no_dispatch,      \* inside `with torch.utils._mode_utils.no_dispatch()`
    result,           \* <<>> or <<value returned to the caller>>
    exc,              \* <<>> or <<exception that left the entry point>>
    log,              \* the calls made to the framework passes, in order
    \* ---- test_fsdp_hybrid_shard.py: the patching context managers ----
    dist_all_reduce,            \* the attribute dist.all_reduce
    dist_reduce_scatter_base,   \* the attribute dist._reduce_scatter_base
    current_dtype,              \* the global _CURRENT_FULL_PRECISION_PARAM_DTYPE
    frames,                     \* the active context-manager frames, innermost last
    unwinding,                  \* an exception raised by a body is propagating
    last_event,                 \* the latest entry to or exit from a context
    \* ---- test_fsdp_hybrid_shard.py: test_fsdp_hybrid_shard_basic_setup ----
    gpu_count,        \* torch.cuda.device_count() of the single test node
    test_pc,          \* per rank: position of the test
    fsdp_modules,     \* per rank: the FSDP instances created so far
    checked,          \* per rank: the modules whose assertions were evaluated
    test_exc          \* per rank: <<>> or <<the exception that ended the test>>

exporterVars == <<entry, fn_args, fn_kwargs, caller_opts, pc, graph_module,
                  bound_args, export_args, export_kwargs, export_options,
                  decomposed_module, onnxscript_graph, onnx_model,
                  no_dispatch, result, exc, log>>

patchVars == <<dist_all_reduce, dist_reduce_scatter_base, current_dtype,
               frames, unwinding, last_event>>

testVars == <<gpu_count, test_pc, fsdp_modules, checked, test_exc>>

vars == <<exporterVars, patchVars, testVars>>

(***************************************************************************)
(* Bounds of the model.                                                    *)
(***************************************************************************)
MaxArgs == 2
MaxKwargs == 1

None == "None"
Tensors == {"t1", "t2"}
ArgValues == Tensors \cup {None}

SeqsUpTo(S, n) == UNION {[1..k -> S] : k \in 0..n}

\* An optional keyword argument: <<>> when the caller omits it, <<v>> otherwise.
Optional(S) == {<<>>} \cup {<<v>> : v \in S}

(***************************************************************************)
(* exporter.py                                                             *)
(***************************************************************************)
ONNX_DEFAULT_OPSET == 14
OpsetVersions == {ONNX_DEFAULT_OPSET, ONNX_DEFAULT_OPSET + 3}
_ONNX_FRIENDLY_DECOMPOSITION_TABLE == "_ONNX_FRIENDLY_DECOMPOSITION_TABLE"

EntryPoints == {"export", "export_after_normalizing_args_and_kwargs"}

CallerOptions == [use_binary_format : Optional(BOOLEAN),
                  opset_version : Optional(OpsetVersions),
                  op_level_debug : Optional(BOOLEAN)]

Default(opt, d) == IF opt = <<>> THEN d ELSE opt[1]

\* The keyword-only parameters of both entry points with their defaults.
Parameters(o) ==
    [use_binary_format |-> Default(o.use_binary_format, TRUE),
     opset_version |-> Default(o.opset_version, ONNX_DEFAULT_OPSET),
     op_level_debug |-> Default(o.op_level_debug, FALSE)]

\* options.ExportOptions() and ExportOptions.update(**kwargs)
ExportOptions ==
    [opset_version |-> ONNX_DEFAULT_OPSET,
     use_binary_format |-> TRUE,
     op_level_debug |-> FALSE,
     decomposition_table |-> _ONNX_FRIENDLY_DECOMPOSITION_TABLE]

update(self, kwargs) ==
    [k \in DOMAIN self |-> IF k \in DOMAIN kwargs THEN kwargs[k] ELSE self[k]]

\* The keyword arguments export hands to _export.
ExportKwargs_Mutant(p) ==
    [opset_version |-> ONNX_DEFAULT_OPSET,
     decomposition_table |-> _ONNX_FRIENDLY_DECOMPOSITION_TABLE,
     use_binary_format |-> p.use_binary_format,
     op_level_debug |-> p.op_level_debug]

ExportKwargs(p) ==
    [opset_version |-> p.opset_version,
     decomposition_table |-> _ONNX_FRIENDLY_DECOMPOSITION_TABLE,
     use_binary_format |-> p.use_binary_format,
     op_level_debug |-> p.op_level_debug]

\* The keyword arguments export_after_normalizing_args_and_kwargs hands to _export.
NormalizingKwargs(p) ==
    [opset_version |-> p.opset_version,
     decomposition_table |-> _ONNX_FRIENDLY_DECOMPOSITION_TABLE,
     use_binary_format |-> p.use_binary_format,
     op_level_debug |-> p.op_level_debug]

\* tuple(arg for arg in bound_args if arg is not None)
DropNone_Mutant(s) == s

RECURSIVE DropNone(_)
DropNone(s) ==
    IF s = <<>> THEN <<>>
    ELSE IF Head(s) # None THEN <<Head(s)>> \o DropNone(Tail(s))
         ELSE DropNone(Tail(s))

\* FxFrontendUnpackKwargs.trace binds args and kwargs to the signature of fn.
BindArgs(args, kwargs) == args \o kwargs

\* The values the framework passes produce, each built from what it was given.
DynamoExportTrace(fn, args) ==
    [op |-> "DynamoExport.trace", fn |-> fn, args |-> args]
UnpackKwargsTrace(fn, args, kwargs) ==
    [op |-> "FxFrontendUnpackKwargs.trace", fn |-> fn, args |-> args,
     kwargs |-> kwargs]
DecomposeRun(module, table, args) ==
    [op |-> "Decompose", module |-> module, table |-> table, args |-> args]
ShapeInferenceRun(module, args) ==
    [op |-> "ShapeInferenceWithFakeTensor", module |-> module, args |-> args]
export_fx_to_onnxscript(module, options) ==
    [op |-> "export_fx_to_onnxscript", module |-> module, options |-> options]
to_model_proto(graph, opset) ==
    [op |-> "to_model_proto", graph |-> graph, opset |-> opset]
SerializeToString(model) ==
    [op |-> "SerializeToString", model |-> model]

\* The exception a failing pass raises.
Raised(stage) == [raised_by |-> stage]

\* One call of a framework pass: what it was given, whether the no_dispatch
\* scope was active, and <<its result>> (<<>> when it raised).
Call(stage, input, args, extra, output) ==
    [stage |-> stage, input |-> input, args |-> args, extra |-> extra,
     nd |-> no_dispatch, output |-> output]

\* No handler stands between a pass and the caller: the exception leaves
\* _export and the entry point, and the pending `with` block is exited.
Propagate_Mutant(stage) ==
    /\ pc' = "raised"
    /\ exc' = <<Raised("_export")>>
    /\ no_dispatch' = FALSE

Propagate(stage) ==
    /\ pc' = "raised"
    /\ exc' = <<Raised(stage)>>
    /\ no_dispatch' = FALSE

InitExporter ==
    /\ entry \in EntryPoints
    /\ fn_args \in SeqsUpTo(ArgValues, MaxArgs)
    /\ fn_kwargs \in IF entry = "export" THEN {<<>>}
                     ELSE SeqsUpTo(ArgValues, MaxKwargs)
    /\ caller_opts \in CallerOptions
    /\ pc = "start"
    /\ graph_module = <<>>
    /\ bound_args = <<>>
    /\ export_args = <<>>
    /\ export_kwargs = <<>>
    /\ export_options = <<>>
    /\ decomposed_module = <<>>
    /\ onnxscript_graph = <<>>
    /\ onnx_model = <<>>
    /\ no_dispatch = FALSE
    /\ result = <<>>
    /\ exc = <<>>
    /\ log = <<>>

\* export, lines 80-81: fx_frontend.trace(fn, *args)
ExportTrace ==
    /\ pc = "start"
    /\ entry = "export"
    /\ \E ok \in BOOLEAN :
        IF ok
        THEN /\ graph_module' = DynamoExportTrace("fn", fn_args)
             /\ log' = Append(log, Call("trace", "fn", fn_args, <<>>,
                                        <<DynamoExportTrace("fn", fn_args)>>))
             /\ pc' = "traced"
             /\ UNCHANGED <<exc, no_dispatch>>
        ELSE /\ log' = Append(log, Call("trace", "fn", fn_args, <<>>, <<>>))
             /\ Propagate("trace")
             /\ UNCHANGED graph_module
    /\ UNCHANGED <<patchVars, testVars>>
    /\ UNCHANGED <<entry, fn_args, fn_kwargs, caller_opts, bound_args,
                   export_args, export_kwargs, export_options,
                   decomposed_module, onnxscript_graph, onnx_model, result>>

\* export_after_normalizing_args_and_kwargs, lines 139-149
NormalizingTrace ==
    /\ pc = "start"
    /\ entry = "export_after_normalizing_args_and_kwargs"
    /\ \E ok \in BOOLEAN :
        IF ok
        THEN /\ graph_module' = UnpackKwargsTrace("fn", fn_args, fn_kwargs)
             /\ bound_args' = BindArgs(fn_args, fn_kwargs)
             /\ log' = Append(log, Call("trace", "fn", fn_args \o fn_kwargs, <<>>,
                              <<UnpackKwargsTrace("fn", fn_args, fn_kwargs)>>))
             /\ pc' = "traced"
             /\ UNCHANGED <<exc, no_dispatch>>
        ELSE /\ log' = Append(log, Call("trace", "fn", fn_args \o fn_kwargs,
                                        <<>>, <<>>))
             /\ Propagate("trace")
             /\ UNCHANGED <<graph_module, bound_args>>
    /\ UNCHANGED <<patchVars, testVars>>
    /\ UNCHANGED <<entry, fn_args, fn_kwargs, caller_opts,
                   export_args, export_kwargs, export_options,
                   decomposed_module, onnxscript_graph, onnx_model, result>>

\* The arguments of the call of _export made by each entry point.
ExportCallArgs ==
    IF entry = "export" THEN fn_args ELSE DropNone(bound_args)

ExportCallKwargs ==
    IF entry = "export" THEN ExportKwargs(Parameters(caller_opts))
    ELSE NormalizingKwargs(Parameters(caller_opts))

\* export lines 86-93 / normalizing lines 152-160, then _export lines 32-33
CallExport ==
    /\ pc = "traced"
    /\ export_args' = ExportCallArgs
    /\ export_kwargs' = ExportCallKwargs
    /\ export_options' = update(ExportOptions, ExportCallKwargs)
    /\ pc' = "in_export"
    /\ UNCHANGED <<patchVars, testVars>>
    /\ UNCHANGED <<entry, fn_args, fn_kwargs, caller_opts, graph_module,
                   bound_args, decomposed_module, onnxscript_graph, onnx_model,
                   no_dispatch, result, exc, log>>

\* _export lines 38-40
Decompose ==
    /\ pc = "in_export"
    /\ \E ok \in BOOLEAN :
        LET out == DecomposeRun(graph_module,
                                export_options.decomposition_table, export_args)
        IN IF ok
           THEN /\ decomposed_module' = out
                /\ log' = Append(log, Call("Decompose", graph_module, export_args,
                              export_options.decomposition_table, <<out>>))
                /\ pc' = "decomposed"
                /\ UNCHANGED <<exc, no_dispatch>>
           ELSE /\ log' = Append(log, Call("Decompose", graph_module, export_args,
                              export_options.decomposition_table, <<>>))
                /\ Propagate("Decompose")
                /\ UNCHANGED decomposed_module
    /\ UNCHANGED <<patchVars, testVars>>
    /\ UNCHANGED <<entry, fn_args, fn_kwargs, caller_opts, graph_module,
                   bound_args, export_args, export_kwargs, export_options,
                   onnxscript_graph, onnx_model, result>>

\* _export lines 44-46
ShapeInferenceWithFakeTensor ==
    /\ pc = "decomposed"
    /\ \E ok \in BOOLEAN :
        LET out == ShapeInferenceRun(decomposed_module, export_args)
        IN IF ok
           THEN /\ decomposed_module' = out
                /\ log' = Append(log, Call("ShapeInferenceWithFakeTensor",
                              decomposed_module, export_args, <<>>, <<out>>))
                /\ pc' = "inferred"
                /\ UNCHANGED <<exc, no_dispatch>>
           ELSE /\ log' = Append(log, Call("ShapeInferenceWithFakeTensor",
                              decomposed_module, export_args, <<>>, <<>>))
                /\ Propagate("ShapeInferenceWithFakeTensor")
                /\ UNCHANGED decomposed_module
    /\ UNCHANGED <<patchVars, testVars>>
    /\ UNCHANGED <<entry, fn_args, fn_kwargs, caller_opts, graph_module,
                   bound_args, export_args, export_kwargs, export_options,
                   onnxscript_graph, onnx_model, result>>

\* _export line 53: entering the with block
EnterNoDispatch ==
    /\ pc = "inferred"
    /\ no_dispatch' = TRUE
    /\ pc' = "in_no_dispatch"
    /\ UNCHANGED <<patchVars, testVars>>
    /\ UNCHANGED <<entry, fn_args, fn_kwargs, caller_opts, graph_module,
                   bound_args, export_args, export_kwargs, export_options,
                   decomposed_module, onnxscript_graph, onnx_model,
                   result, exc, log>>

\* _export lines 54-56
ExportFxToOnnxscript ==
    /\ pc = "in_no_dispatch"
    /\ \E ok \in BOOLEAN :
        LET out == export_fx_to_onnxscript(decomposed_module, export_options)
        IN IF ok
           THEN /\ onnxscript_graph' = out
                /\ log' = Append(log, Call("export_fx_to_onnxscript",
                              decomposed_module, <<>>, export_options, <<out>>))
                /\ pc' = "lowered"
                /\ UNCHANGED <<exc, no_dispatch>>
           ELSE /\ log' = Append(log, Call("export_fx_to_onnxscript",
                              decomposed_module, <<>>, export_options, <<>>))
                /\ Propagate("export_fx_to_onnxscript")
                /\ UNCHANGED onnxscript_graph
    /\ UNCHANGED <<patchVars, testVars>>
    /\ UNCHANGED <<entry, fn_args, fn_kwargs, caller_opts, graph_module,
                   bound_args, export_args, export_kwargs, export_options,
                   decomposed_module, onnx_model, result>>

\* _export line 56-57: leaving the with block
ExitNoDispatch_Mutant ==
    /\ pc = "lowered"
    /\ pc' = "after_no_dispatch"
    /\ UNCHANGED <<patchVars, testVars>>
    /\ UNCHANGED <<entry, fn_args, fn_kwargs, caller_opts, graph_module,
                   bound_args, export_args, export_kwargs, export_options,
                   decomposed_module, onnxscript_graph, onnx_model,
                   no_dispatch, result, exc, log>>

ExitNoDispatch ==
    /\ pc = "lowered"
    /\ no_dispatch' = FALSE
    /\ pc' = "after_no_dispatch"
    /\ UNCHANGED <<patchVars, testVars>>
    /\ UNCHANGED <<entry, fn_args, fn_kwargs, caller_opts, graph_module,
                   bound_args, export_args, export_kwargs, export_options,
                   decomposed_module, onnxscript_graph, onnx_model,
                   result, exc, log>>

\* _export line 58
ToModelProto ==
    /\ pc = "after_no_dispatch"
    /\ \E ok \in BOOLEAN :
        LET out == to_model_proto(onnxscript_graph, export_options.opset_version)
        IN IF ok
           THEN /\ onnx_model' = out
                /\ log' = Append(log, Call("to_model_proto", onnxscript_graph,
                              <<>>, export_options.opset_version, <<out>>))
                /\ pc' = "proto"
                /\ UNCHANGED <<exc, no_dispatch>>
           ELSE /\ log' = Append(log, Call("to_model_proto", onnxscript_graph,
                              <<>>, export_options.opset_version, <<>>))
                /\ Propagate("to_model_proto")
                /\ UNCHANGED onnx_model
    /\ UNCHANGED <<patchVars, testVars>>
    /\ UNCHANGED <<entry, fn_args, fn_kwargs, caller_opts, graph_module,
                   bound_args, export_args, export_kwargs, export_options,
                   decomposed_module, onnxscript_graph, result>>

\* _export line 60: which of the two return statements is taken
ReturnsBinary_Inverted(options) == ~options.use_binary_format

ReturnsBinary_Never(options) == FALSE

ReturnsBinary(options) == options.use_binary_format

\* _export lines 60-64
Return ==
    /\ pc = "proto"
    /\ IF ReturnsBinary(export_options)
       THEN \E ok \in BOOLEAN :
            IF ok
            THEN /\ result' = <<SerializeToString(onnx_model)>>
                 /\ log' = Append(log, Call("SerializeToString", onnx_model,
                               <<>>, <<>>, <<SerializeToString(onnx_model)>>))
                 /\ pc' = "returned"
                 /\ UNCHANGED <<exc, no_dispatch>>
            ELSE /\ log' = Append(log, Call("SerializeToString", onnx_model,
                               <<>>, <<>>, <<>>))
                 /\ Propagate("SerializeToString")
                 /\ UNCHANGED result
       ELSE /\ result' = <<onnx_model>>
            /\ pc' = "returned"
            /\ UNCHANGED <<exc, no_dispatch, log>>
    /\ UNCHANGED <<patchVars, testVars>>
    /\ UNCHANGED <<entry, fn_args, fn_kwargs, caller_opts, graph_module,
                   bound_args, export_args, export_kwargs, export_options,
                   decomposed_module, onnxscript_graph, onnx_model>>

Next ==
    \/ ExportTrace
    \/ NormalizingTrace
    \/ CallExport
    \/ Decompose
    \/ ShapeInferenceWithFakeTensor
    \/ EnterNoDispatch
    \/ ExportFxToOnnxscript
    \/ ExitNoDispatch
    \/ ToModelProto
    \/ Return

(***************************************************************************)
(* test_fsdp_hybrid_shard.py: patch_reduce_scatter and patch_allreduce     *)
(***************************************************************************)
MaxDepth == 3

\* Values of the attribute dist.all_reduce: the library's function and the
\* replacements a caller may install (patched_allreduce is the test's).
AllReduceFns == {"all_reduce", "patched_allreduce", "other_allreduce"}
ReduceScatterFns == {"_reduce_scatter_base", "new_reduce_scatter"}
Dtypes == {"float32", "float16"}

\* The global _CURRENT_FULL_PRECISION_PARAM_DTYPE before its first assignment.
Unbound == "<unbound>"

Top(s) == s[Len(s)]
Pop(s) == SubSeq(s, 1, Len(s) - 1)

InitPatch ==
    /\ dist_all_reduce = "all_reduce"
    /\ dist_reduce_scatter_base = "_reduce_scatter_base"
    /\ current_dtype = Unbound
    /\ frames = <<>>
    /\ unwinding = FALSE
    /\ last_event = <<>>

\* patch_reduce_scatter lines 56-61: the generator runs up to its yield.
EnterPatchReduceScatter(new_reduce_scatter, full_precision_param_dtype) ==
    /\ ~unwinding
    /\ Len(frames) < MaxDepth
    /\ frames' = Append(frames,
          [kind |-> "patch_reduce_scatter",
           new_reduce_scatter |-> new_reduce_scatter,
           full_precision_param_dtype |-> full_precision_param_dtype,
           orig_reduce_scatter |-> dist_reduce_scatter_base])
    /\ dist_reduce_scatter_base' = new_reduce_scatter
    /\ current_dtype' = full_precision_param_dtype
    /\ last_event' = <<"enter", "patch_reduce_scatter">>
    /\ UNCHANGED <<dist_all_reduce, unwinding>>
    /\ UNCHANGED <<exporterVars, testVars>>

\* patch_reduce_scatter line 64: the value the global is left with.
DtypeAfterExit_Mutant(frame) == frame.full_precision_param_dtype

DtypeAfterExit(frame) == None

\* patch_reduce_scatter lines 62-64: the finally block, run when the body
\* returns and when it raises alike.
ExitPatchReduceScatter ==
    /\ frames # <<>>
    /\ Top(frames).kind = "patch_reduce_scatter"
    /\ dist_reduce_scatter_base' = Top(frames).orig_reduce_scatter
    /\ current_dtype' = DtypeAfterExit(Top(frames))
    /\ frames' = Pop(frames)
    /\ last_event' = <<"exit", "patch_reduce_scatter",
                       IF unwinding THEN "exception" ELSE "normal">>
    /\ UNCHANGED <<dist_all_reduce, unwinding>>
    /\ UNCHANGED <<exporterVars, testVars>>

\* patch_allreduce lines 72-75: the generator runs up to its yield.
EnterPatchAllreduce(new_allreduce) ==
    /\ ~unwinding
    /\ Len(frames) < MaxDepth
    /\ frames' = Append(frames,
          [kind |-> "patch_allreduce",
           new_allreduce |-> new_allreduce,
           orig_ar |-> dist_all_reduce])
    /\ dist_all_reduce' = new_allreduce
    /\ last_event' = <<"enter", "patch_allreduce">>
    /\ UNCHANGED <<dist_reduce_scatter_base, current_dtype, unwinding>>
    /\ UNCHANGED <<exporterVars, testVars>>

\* patch_allreduce line 77: the value dist.all_reduce is set back to.
RestoredAllreduce_Mutant(frame) == "all_reduce"

RestoredAllreduce(frame) == frame.orig_ar

\* patch_allreduce lines 76-77: the finally block.
ExitPatchAllreduce ==
    /\ frames # <<>>
    /\ Top(frames).kind = "patch_allreduce"
    /\ dist_all_reduce' = RestoredAllreduce(Top(frames))
    /\ frames' = Pop(frames)
    /\ last_event' = <<"exit", "patch_allreduce",
                       IF unwinding THEN "exception" ELSE "normal">>
    /\ UNCHANGED <<dist_reduce_scatter_base, current_dtype, unwinding>>
    /\ UNCHANGED <<exporterVars, testVars>>

\* The body of the innermost `with` raises: the exception is thrown into the
\* generator at its yield (lines 61 and 75).
BodyRaises ==
    /\ frames # <<>>
    /\ ~unwinding
    /\ unwinding' = TRUE
    /\ UNCHANGED <<dist_all_reduce, dist_reduce_scatter_base, current_dtype,
                   frames, last_event>>
    /\ UNCHANGED <<exporterVars, testVars>>

\* Code around the contexts catches the propagating exception.
ExceptionHandled ==
    /\ unwinding
    /\ unwinding' = FALSE
    /\ UNCHANGED <<dist_all_reduce, dist_reduce_scatter_base, current_dtype,
                   frames, last_event>>
    /\ UNCHANGED <<exporterVars, testVars>>

NextPatch ==
    \/ \E f \in ReduceScatterFns, d \in Dtypes : EnterPatchReduceScatter(f, d)
    \/ ExitPatchReduceScatter
    \/ \E f \in AllReduceFns : EnterPatchAllreduce(f)
    \/ ExitPatchAllreduce
    \/ BodyRaises
    \/ ExceptionHandled

(***************************************************************************)
(* test_fsdp_hybrid_shard.py: TestFSDPHybridShard                          *)
(***************************************************************************)
MaxGpus == 3
NumLayers == 4

world_size == 2
NumNodes == 1

Ranks == 0..(world_size - 1)

\* The names bound in the test module's global namespace (lines 3-37, 50-79).
ModuleGlobals ==
    {"deepcopy", "functools", "sys", "namedtuple", "suppress", "contextlib",
     "torch", "dist", "nn", "FlatParameter", "FSDP",
     "ShardingStrategy", "CPUOffload", "always_wrap_policy",
     "transformer_auto_wrap_policy", "TransformerDecoderLayer",
     "TransformerEncoderLayer", "skip_if_lt_x_gpu", "CUDAInitMode",
     "FSDPInitMode", "FSDPTest", "NestedWrappedModule",
     "TransformerWithSharedParams", "_assert_module_states",
     "TEST_WITH_DEV_DBG_ASAN", "instantiate_parametrized_tests", "parametrize",
     "run_tests", "_rank_not_in_group", "patch_reduce_scatter",
     "patch_allreduce", "TestFSDPHybridShard"}

\* lines 96-100
fsdp_kwargs == [sharding_strategy |-> "HYBRID_SHARD"]

\* The inter-node process group of a rank under HYBRID_SHARD: the ranks at
\* the same position on every node.
RanksPerNode == world_size \div NumNodes

InterNodePg_Mutant(rank) == Ranks

InterNodePg(rank) ==
    {q \in Ranks : q % RanksPerNode = rank % RanksPerNode}

\* FullyShardedDataParallel(module, **fsdp_kwargs) as constructed on `rank`;
\* auto wrapping hands the same keyword arguments to every nested instance.
FSDP(id, kwargs, rank) ==
    [id |-> id,
     sharding_strategy |-> kwargs.sharding_strategy,
     inter_node_pg |-> IF kwargs.sharding_strategy = "HYBRID_SHARD"
                       THEN InterNodePg(rank) ELSE {}]

_rank_not_in_group(rank, group) == rank \notin group

\* line 114
other_ranks(my_rank) == {i \in 0..(world_size - 1) : i # my_rank}

\* line 109
AssertStrategy(fsdp_module) ==
    fsdp_module.sharding_strategy = "HYBRID_SHARD"

\* lines 112-117
AssertInterNodePg(my_rank, fsdp_module) ==
    /\ ~_rank_not_in_group(my_rank, fsdp_module.inter_node_pg)
    /\ \A r \in other_ranks(my_rank) :
          _rank_not_in_group(r, fsdp_module.inter_node_pg)

Range(s) == {s[i] : i \in DOMAIN s}

InitTest ==
    /\ gpu_count \in 1..MaxGpus
    /\ test_pc = [r \in Ranks |-> "start"]
    /\ fsdp_modules = [r \in Ranks |-> <<>>]
    /\ checked = [r \in Ranks |-> {}]
    /\ test_exc = [r \in Ranks |-> <<>>]

\* line 88: @skip_if_lt_x_gpu(2)
StartTest(r) ==
    /\ test_pc[r] = "start"
    /\ test_pc' = [test_pc EXCEPT ![r] =
                      IF gpu_count < 2 THEN "skipped" ELSE "init"]
    /\ UNCHANGED <<gpu_count, fsdp_modules, checked, test_exc>>
    /\ UNCHANGED <<exporterVars, patchVars>>

\* lines 101-106: TransformerWithSharedParams.init with FSDPInitMode.RECURSIVE
\* wraps the transformer layers (ids 1..NumLayers), then the root (id 0).
WrapNext(r) ==
    /\ test_pc[r] = "init"
    /\ Len(fsdp_modules[r]) < NumLayers + 1
    /\ LET id == IF Len(fsdp_modules[r]) < NumLayers
                 THEN Len(fsdp_modules[r]) + 1 ELSE 0
       IN fsdp_modules' = [fsdp_modules EXCEPT ![r] =
                              Append(@, FSDP(id, fsdp_kwargs, r))]
    /\ UNCHANGED <<gpu_count, test_pc, checked, test_exc>>
    /\ UNCHANGED <<exporterVars, patchVars>>

\* lines 108-117: the name FullyShardedDataParallel is looked up in the
\* module's globals; when it resolves, the loop evaluates the assertions of
\* every FSDP instance.
BasicSetupLoop(r) ==
    /\ test_pc[r] = "init"
    /\ Len(fsdp_modules[r]) = NumLayers + 1
    /\ IF "FullyShardedDataParallel" \notin ModuleGlobals
       THEN /\ test_pc' = [test_pc EXCEPT ![r] = "errored"]
            /\ test_exc' = [test_exc EXCEPT ![r] = <<"NameError">>]
            /\ UNCHANGED checked
       ELSE IF \A m \in Range(fsdp_modules[r]) :
                  AssertStrategy(m) /\ AssertInterNodePg(r, m)
            THEN /\ test_pc' = [test_pc EXCEPT ![r] = "asserted"]
                 /\ checked' = [checked EXCEPT ![r] =
                                   {m.id : m \in Range(fsdp_modules[r])}]
                 /\ UNCHANGED test_exc
            ELSE /\ test_pc' = [test_pc EXCEPT ![r] = "errored"]
                 /\ test_exc' = [test_exc EXCEPT ![r] = <<"AssertionError">>]
                 /\ UNCHANGED checked
    /\ UNCHANGED <<gpu_count, fsdp_modules>>
    /\ UNCHANGED <<exporterVars, patchVars>>

NextTest ==
    \/ \E r \in Ranks : StartTest(r)
    \/ \E r \in Ranks : WrapNext(r)
    \/ \E r \in Ranks : BasicSetupLoop(r)

(***************************************************************************)
(* The specifications.                                                     *)
(***************************************************************************)
ExporterIdle ==
    /\ InitExporter
    /\ entry = "export"
    /\ fn_args = <<>>
    /\ caller_opts = [use_binary_format |-> <<>>, opset_version |-> <<>>,
                      op_level_debug |-> <<>>]

TestIdle == InitTest /\ gpu_count = 1

Init == InitExporter /\ InitPatch /\ TestIdle

Spec == Init /\ [][Next]_vars

InitPatchOnly == ExporterIdle /\ InitPatch /\ TestIdle

SpecPatch == InitPatchOnly /\ [][NextPatch]_vars

InitTestOnly == ExporterIdle /\ InitPatch /\ InitTest

SpecTest == InitTestOnly /\ [][NextTest]_vars

(***************************************************************************)
(* The claims.                                                             *)
(***************************************************************************)
Normalizing == "export_after_normalizing_args_and_kwargs"
Params == Parameters(caller_opts)
Stages == [i \in 1..Len(log) |-> log[i].stage]

\* C1: under HYBRID_SHARD on a single node, for every rank r and every FSDP
\* module created on r, the module's inter-node process group contains r and
\* no other rank of 0..world_size-1.
C1_InterNodePgOnlySelf ==
    \A r \in Ranks : \A m \in Range(fsdp_modules[r]) :
        /\ m.sharding_strategy = "HYBRID_SHARD"
        /\ r \in m.inter_node_pg
        /\ \A q \in other_ranks(r) : q \notin m.inter_node_pg

\* Both ranks have wrapped every transformer layer and the root.
C1_Witness ==
    \A r \in Ranks : Len(fsdp_modules[r]) = NumLayers + 1

\* C2: the kind of the result is selected by use_binary_format alone: the
\* serialized bytes of the model proto when it is True (also by default),
\* the model proto itself when it is False, whatever the other options are.
C2_ResultKind ==
    pc = "returned" =>
        /\ Len(result) = 1
        /\ result[1].op = IF Params.use_binary_format
                          THEN "SerializeToString" ELSE "to_model_proto"
        /\ result[1] = IF Params.use_binary_format
                       THEN SerializeToString(onnx_model) ELSE onnx_model

\* A structured model was returned with the other two options set off
\* their defaults.
C2_Witness ==
    /\ pc = "returned"
    /\ caller_opts.use_binary_format = <<FALSE>>
    /\ caller_opts.op_level_debug = <<TRUE>>
    /\ caller_opts.opset_version = <<ONNX_DEFAULT_OPSET + 3>>
    /\ result = <<onnx_model>>

C4_AssertionsEvaluated ==
    \A r \in Ranks :
        test_pc[r] \in {"asserted", "errored"} =>
            /\ test_exc[r] = <<>>
            /\ checked[r] = {m.id : m \in Range(fsdp_modules[r])}
            /\ \A m \in Range(fsdp_modules[r]) :
                  m.sharding_strategy = "HYBRID_SHARD"

\* C5: after any properly nested sequence of entries and exits (by return
\* or by exception) dist.all_reduce is the library's function when no
\* patch_allreduce context is active and the function of the innermost
\* active one otherwise.
ActiveAllreduce == SelectSeq(frames, LAMBDA f : f.kind = "patch_allreduce")

C5_AllreduceRestored ==
    dist_all_reduce = IF ActiveAllreduce = <<>> THEN "all_reduce"
                      ELSE Top(ActiveAllreduce).new_allreduce

\* An inner patch_allreduce was left by an exception while an outer one,
\* installing another function, is still active.
C5_Witness ==
    /\ last_event = <<"exit", "patch_allreduce", "exception">>
    /\ ActiveAllreduce # <<>>
    /\ dist_all_reduce = "patched_allreduce"

\* C6: entering patch_reduce_scatter installs new_reduce_scatter and sets
\* the global dtype to full_precision_param_dtype; leaving it (by return or
\* by exception) sets dist._reduce_scatter_base back to its value at entry
\* and the global dtype to None, whatever it was before.
C6_ReduceScatterRestored ==
    [][/\ (Len(frames') = Len(frames) + 1
           /\ Top(frames').kind = "patch_reduce_scatter") =>
              /\ Top(frames').orig_reduce_scatter = dist_reduce_scatter_base
              /\ dist_reduce_scatter_base' = Top(frames').new_reduce_scatter
              /\ current_dtype' = Top(frames').full_precision_param_dtype
       /\ (Len(frames') = Len(frames) - 1
           /\ Top(frames).kind = "patch_reduce_scatter") =>
              /\ dist_reduce_scatter_base' = Top(frames).orig_reduce_scatter
              /\ current_dtype' = None
      ]_vars

\* An inner patch_reduce_scatter was left while an outer one is still
\* active: the global dtype is None inside the outer body.
C6_Witness ==
    /\ last_event \in {<<"exit", "patch_reduce_scatter", how>> :
                          how \in {"normal", "exception"}}
    /\ frames # <<>>
    /\ Top(frames).kind = "patch_reduce_scatter"
    /\ Top(frames).full_precision_param_dtype = "float16"
    /\ current_dtype = None

\* C7: an exception raised by a pass leaves the entry point unchanged: the
\* failing call is the last one made, nothing is returned, and the
\* exception the caller sees is the one the pass raised.
C7_ExceptionPropagates ==
    /\ \A i \in 1..Len(log) :
          log[i].output = <<>> =>
              /\ i = Len(log)
              /\ pc = "raised"
              /\ result = <<>>
              /\ exc = <<Raised(log[i].stage)>>
    /\ pc = "raised" => (log # <<>> /\ Top(log).output = <<>>)
    /\ exc # <<>> => (pc = "raised" /\ result = <<>>)

\* The shape-inference pass raised after decomposition succeeded.
C7_Witness ==
    /\ pc = "raised"
    /\ exc = <<Raised("ShapeInferenceWithFakeTensor")>>
    /\ Len(log) = 3

\* C8: a successful export called trace, Decompose,
\* ShapeInferenceWithFakeTensor, export_fx_to_onnxscript, to_model_proto
\* and, only with use_binary_format, SerializeToString, once each and in
\* this order; each was given the result of the one before; only
\* export_fx_to_onnxscript ran inside no_dispatch.
C8_StageOrder ==
    pc = "returned" =>
        /\ Stages = <<"trace", "Decompose", "ShapeInferenceWithFakeTensor",
                      "export_fx_to_onnxscript", "to_model_proto">>
                    \o (IF Params.use_binary_format
                        THEN <<"SerializeToString">> ELSE <<>>)
        /\ \A i \in 2..Len(log) : <<log[i].input>> = log[i - 1].output
        /\ result = Top(log).output
        /\ \A i \in 1..Len(log) :
              log[i].nd <=> (log[i].stage = "export_fx_to_onnxscript")
        /\ ~no_dispatch

\* A binary export returned after six calls.
C8_Witness ==
    /\ pc = "returned"
    /\ Len(log) = 6

\* C9: both entry points forward opset_version, use_binary_format and
\* op_level_debug unchanged, with the ONNX-friendly decomposition table, to
\* _export; to_model_proto gets the caller's opset version and Decompose
\* gets that table; the two entry points forward the same values.
C9_OptionsForwarded ==
    /\ \A o \in CallerOptions :
          ExportKwargs(Parameters(o)) = NormalizingKwargs(Parameters(o))
    /\ pc \notin {"start", "traced"} /\ Len(log) > 1 =>
          /\ export_kwargs.opset_version = Params.opset_version
          /\ export_kwargs.use_binary_format = Params.use_binary_format
          /\ export_kwargs.op_level_debug = Params.op_level_debug
          /\ export_kwargs.decomposition_table
                = _ONNX_FRIENDLY_DECOMPOSITION_TABLE
    /\ \A i \in 1..Len(log) :
          /\ log[i].stage = "to_model_proto" =>
                log[i].extra = Params.opset_version
          /\ log[i].stage = "Decompose" =>
                log[i].extra = _ONNX_FRIENDLY_DECOMPOSITION_TABLE
          /\ log[i].stage = "export_fx_to_onnxscript" =>
                log[i].extra.op_level_debug = Params.op_level_debug

\* export returned for a caller who chose a non-default opset version.
C9_Witness ==
    /\ entry = "export"
    /\ pc = "returned"
    /\ caller_opts.opset_version = <<ONNX_DEFAULT_OPSET + 3>>
    /\ caller_opts.op_level_debug = <<TRUE>>

\* C10: Decompose and ShapeInferenceWithFakeTensor are run on the caller's
\* positional args as given (export), or on the frontend's bound args with
\* every None removed and the order of the others kept (the normalizing
\* entry point).
NonNoneUpTo(b, k) == Cardinality({m \in 1..k : b[m] # None})

C10_ArgsReachingPasses ==
    \A i \in 1..Len(log) :
        log[i].stage \in {"Decompose", "ShapeInferenceWithFakeTensor"} =>
            IF entry = "export"
            THEN log[i].args = fn_args /\ fn_kwargs = <<>>
            ELSE LET a == log[i].args
                     b == bound_args
                 IN /\ \A j \in 1..Len(a) : a[j] # None
                    /\ Len(a) = NonNoneUpTo(b, Len(b))
                    /\ \A j \in 1..Len(a) :
                          \E k \in 1..Len(b) :
                              /\ b[k] # None
                              /\ NonNoneUpTo(b, k) = j
                              /\ a[j] = b[k]

\* The normalizing entry point returned after a None between two tensors
\* was dropped.
C10_Witness ==
    /\ entry = Normalizing
    /\ pc = "returned"
    /\ bound_args = <<"t2", None, "t1">>
    /\ export_args = <<"t2", "t1">>

====
